---- MODULE Spec2Model ----
(***************************************************************************)
(* Model of the Cool Papers extraction engine (src/parse_coolpapers.py):   *)
(* the link classifier, the four structural parsers, the candidate merge,  *)
(* the ranker and the fallback block scanner of extract_papers; the batch  *)
(* loop of main over HTML files (parse_file); and the resumable ingestion  *)
(* of src/supabase_ingest.py (ingest_file, its checkpoint, main).          *)
(*                                                                         *)
(* Representation.                                                         *)
(*   - Python None is the empty tuple, a present value v is <<v>>.         *)
(*   - A text (a title, an author, an id, a label) is the sequence of its  *)
(*     whitespace-separated tokens, drawn from a fixed vocabulary; the     *)
(*     empty string is the empty sequence.  Lower-casing, substring tests, *)
(*     digit search and code-point order of a token are tables over that   *)
(*     vocabulary.  get_text(" ", strip=True) yields such a text.          *)
(*   - A URL is a record [kind, abs, segs]: kind "ok" is a well-formed     *)
(*     reference, absolute or relative, with path segments segs; kind      *)
(*     "empty" is the empty attribute value, kind "blank" a whitespace-    *)
(*     only one; kind "bad" is a                                           *)
(*     reference urljoin rejects with ValueError (e.g. "http://[").        *)
(*   - A dict is a function whose DOMAIN is the set of its keys.           *)
(***************************************************************************)
EXTENDS Integers, Sequences, FiniteSets, TLC

VARIABLES
    doc,          \* the parsed document: [base_tag, blocks]
    pc,           \* position inside extract_papers
    parser_i,     \* index of the next structural parser to run
    candidates,   \* extract_papers: candidates
    failed,       \* parsers whose exception was caught at line 364
    deduped,      \* extract_papers: deduped, in insertion order
    papers,       \* the value extract_papers returns
    ran,          \* the parsers called so far, in call order
    scanned,      \* whether the fallback block scan has run
    lk_tag,       \* extract_links call: the anchors of its tag argument
    lk_base,      \* extract_links call: base_url
    lk_out,       \* extract_links call: None before the call, <<result>> after
    html_files,   \* parse_coolpapers.main: the files to parse, in order
    file_i,       \* main: index of the next file of the loop of line 488
    main_pc,      \* position inside parse_coolpapers.main
    printed,      \* the lines main and parse_file printed, in order
    out_files,    \* the JSON outputs written: file index -> paper_count
    json_files,   \* supabase_ingest: the papers of each file of data_ready/
    batch_size,   \* ingest_file: batch_size
    checkpoint,   \* the checkpoint file on disk: [offsets, done]
    run_pc,       \* position inside supabase_ingest.main
    path_i,       \* main: index of the file of the loop of line 175
    batch_start,  \* ingest_file: start of the next batch (line 121)
    upserted,     \* the (file, paper position) pairs upserted so far
    resumed       \* some ingest_file call began at a saved offset > 0

batch_vars == <<html_files, file_i, main_pc, printed, out_files>>

ingest_vars == <<json_files, batch_size, checkpoint, run_pc, path_i, batch_start,
                 upserted, resumed>>

vars == <<doc, pc, parser_i, candidates, failed, deduped, papers, ran, scanned,
          lk_tag, lk_base, lk_out, batch_vars, ingest_vars>>

None == <<>>
Some(v) == <<v>>

(***************************************************************************)
(* Bounds                                                                  *)
(***************************************************************************)
MaxAnchors == 2
MaxBlocks == 3

(***************************************************************************)
(* Vocabulary tables: str.lower(), `sub in s`, s.startswith(p)             *)
(***************************************************************************)
LowerWord(w) ==
    CASE w = "PDF" -> "pdf"
      [] w = "[PDF]" -> "[pdf]"
      [] w = "Supp" -> "supp"
      [] w = "Slides" -> "slides"
      [] w = "ArXiv" -> "arxiv"
      [] w = "Paper" -> "paper"
      [] w = "Author" -> "author"
      [] w = "Alpha" -> "alpha"
      [] w = "Bravo" -> "bravo"
      [] w = "Charlie" -> "charlie"
      [] OTHER -> w

\* <<w, sub>>: the lower-case token w properly contains sub
SubPairs ==
    { <<"[pdf]", "pdf">>, <<"1.pdf", "pdf">>, <<"title-pdf", "pdf">>,
      <<"authors", "author">>, <<"pauthors", "authors">>,
      <<"pauthors", "author">>, <<"supplement", "supp">> }

Contains(w, sub) == w = sub \/ <<w, sub>> \in SubPairs

StartsWith(w, p) == w = p \/ <<w, p>> \in { <<"[pdf]", "[pdf">> }

\* `sub in " ".join(tokens).lower()` for a sub without blanks
InText(sub, tokens) ==
    \E i \in 1..Len(tokens) : Contains(LowerWord(tokens[i]), sub)

InClasses(sub, cls) == \E c \in cls : Contains(LowerWord(c), sub)

(***************************************************************************)
(* URLs and urllib.parse.urljoin                                           *)
(***************************************************************************)
Url(abs, segs) == [kind |-> "ok", abs |-> abs, segs |-> segs]
UrlEmpty == [kind |-> "empty", abs |-> FALSE, segs |-> <<>>]
UrlBlank == [kind |-> "blank", abs |-> FALSE, segs |-> <<>>]
UrlBad == [kind |-> "bad", abs |-> TRUE, segs |-> <<"[">>]

\* urljoin raises ValueError on a reference it cannot split
urljoin_raises(url) == url.kind = "bad"

\* base ends with "/", the reference is absolute or path-relative
urljoin(base, url) ==
    IF url.kind = "blank" THEN base
    ELSE IF url.abs THEN url
    ELSE [kind |-> "ok", abs |-> base.abs, segs |-> base.segs \o url.segs]

IsAbsolute(url) == url.kind = "ok" /\ url.abs

(***************************************************************************)
(* extract_links                                                           *)
(***************************************************************************)
Kinds == <<"pdf", "supp", "arxiv", "video", "slides", "venue", "detail", "link">>

\* lines 58-63: the first populated attribute among href, data, data-href,
\* data-url, stripped; None when there is none
anchor_url(anchor) ==
    LET attrs == <<anchor.href, anchor.data, anchor.dhref, anchor.durl>>
        ok(i) == attrs[i] # None /\ attrs[i][1].kind \notin {"empty", "blank"}
    IN  IF \E i \in 1..4 : ok(i)
        THEN attrs[CHOOSE i \in 1..4 : ok(i) /\ \A j \in 1..(i-1) : ~ok(j)]
        ELSE None

\* line 74: anchor.get_text(" ", strip=True), the superscript included
anchor_text(anchor) ==
    anchor.text \o (IF anchor.sup = None THEN <<>> ELSE anchor.sup[1])

\* the chain with the arXiv rule tried before the PDF rule
classify_swapped(anchor, url) ==
    LET label == anchor_text(anchor)
        href(sub) == InText(sub, url.segs)
    IN  IF href("arxiv") THEN "arxiv"
        ELSE IF InClasses("title-pdf", anchor.cls) \/ href("pdf")
                \/ (label # <<>> /\ StartsWith(LowerWord(label[1]), "[pdf"))
        THEN "pdf"
        ELSE IF InClasses("supp", anchor.cls) \/ href("supp") \/ InText("supp", label)
        THEN "supp"
        ELSE IF href("video") \/ href("youtube") THEN "video"
        ELSE IF href("slides") \/ InText("slides", label) THEN "slides"
        ELSE IF InClasses("title-link", anchor.cls) \/ href("venue") THEN "venue"
        ELSE IF href("paper.html") THEN "detail"
        ELSE "link"

\* lines 77-92: the if/elif chain over classes, href_lower and label
classify(anchor, url) ==
    LET label == anchor_text(anchor)
        href(sub) == InText(sub, url.segs)
    IN  IF InClasses("title-pdf", anchor.cls) \/ href("pdf")
           \/ (label # <<>> /\ StartsWith(LowerWord(label[1]), "[pdf"))
        THEN "pdf"
        ELSE IF InClasses("supp", anchor.cls) \/ href("supp") \/ InText("supp", label)
        THEN "supp"
        ELSE IF href("arxiv") THEN "arxiv"
        ELSE IF href("video") \/ href("youtube") THEN "video"
        ELSE IF href("slides") \/ InText("slides", label) THEN "slides"
        ELSE IF InClasses("title-link", anchor.cls) \/ href("venue") THEN "venue"
        ELSE IF href("paper.html") THEN "detail"
        ELSE "link"

InSeq(x, s) == \E i \in 1..Len(s) : s[i] = x

\* lines 94-96 (also 175-177, 183-185, 190-192): setdefault, append if new
add_link(links, key, url) ==
    LET dest == IF key \in DOMAIN links THEN links[key] ELSE <<>>
        dest2 == IF InSeq(url, dest) THEN dest ELSE Append(dest, url)
    IN  [k \in (DOMAIN links) \cup {key} |-> IF k = key THEN dest2 ELSE links[k]]

EmptyDict == [k \in {} |-> <<>>]

Raised == [raised |-> TRUE, links |-> EmptyDict]

\* lines 57-96: the loop over tag.find_all("a"); the result is
\* [raised, links], raised when urljoin raised at line 68
RECURSIVE extract_links_from(_, _, _, _)
extract_links_from(anchors, i, base_url, links) ==
    IF i > Len(anchors) THEN [raised |-> FALSE, links |-> links]
    ELSE LET anchor == anchors[i]
             found == anchor_url(anchor)
         IN  IF found = None
             THEN extract_links_from(anchors, i + 1, base_url, links)
             ELSE IF base_url # None /\ urljoin_raises(found[1])
             THEN Raised
             ELSE LET url == IF base_url # None
                             THEN urljoin(base_url[1], found[1])
                             ELSE found[1]
                  IN  IF InClasses("author", anchor.cls)
                      THEN extract_links_from(anchors, i + 1, base_url, links)
                      ELSE extract_links_from(anchors, i + 1, base_url,
                               add_link(links, classify(anchor, url), url))

extract_links(anchors, base_url) ==
    extract_links_from(anchors, 1, base_url, EmptyDict)

(***************************************************************************)
(* Small helpers of the module                                             *)
(***************************************************************************)
\* re.split(r"\s*(?:,|;| and | & )\s*", cleaned): "," and ";" always
\* separate; " and " and " & " need a blank on both sides, and the blank
\* before them is gone when a separator was matched just before
RECURSIVE split_parts(_, _, _, _, _)
split_parts(tokens, i, part, after_sep, parts) ==
    IF i > Len(tokens) THEN Append(parts, part)
    ELSE LET t == tokens[i]
         IN  IF t \in {",", ";"}
             THEN split_parts(tokens, i + 1, <<>>, TRUE, Append(parts, part))
             ELSE IF t \in {"and", "&"} /\ ~after_sep /\ i < Len(tokens)
             THEN split_parts(tokens, i + 1, <<>>, TRUE, Append(parts, part))
             ELSE split_parts(tokens, i + 1, Append(part, t), FALSE, parts)

\* str.strip(" ,;") on a token sequence
RECURSIVE strip_seps(_)
strip_seps(tokens) ==
    IF tokens = <<>> THEN <<>>
    ELSE IF Head(tokens) \in {",", ";"} THEN strip_seps(Tail(tokens))
    ELSE IF tokens[Len(tokens)] \in {",", ";"}
    THEN strip_seps(SubSeq(tokens, 1, Len(tokens) - 1))
    ELSE tokens

\* lines 20-25
split_authors(text) ==
    LET cleaned == strip_seps(text)
        parts == IF cleaned = <<>> THEN <<>>
                 ELSE split_parts(cleaned, 1, <<>>, TRUE, <<>>)
    IN  SelectSeq(parts, LAMBDA p : p # <<>>)

\* lines 28-36
RECURSIVE dedupe_from(_, _, _)
dedupe_from(items, i, result) ==
    IF i > Len(items) THEN result
    ELSE IF items[i] = <<>> \/ InSeq(items[i], result)
    THEN dedupe_from(items, i + 1, result)
    ELSE dedupe_from(items, i + 1, Append(result, items[i]))

dedupe_preserve_order(items) == dedupe_from(items, 1, <<>>)

\* re.search(r"\d+", token): the first run of digits in a token
DigitsIn(w) ==
    CASE w \in {"0", "#0"} -> Some(0)
      [] w \in {"1", "#1"} -> Some(1)
      [] w \in {"3", "#3"} -> Some(3)
      [] w \in {"5", "#5"} -> Some(5)
      [] w \in {"7"} -> Some(7)
      [] w \in {"9"} -> Some(9)
      [] OTHER -> None

\* lines 39-43; value is None or <<text>>
to_int(value) ==
    IF value = None \/ value[1] = <<>> THEN None
    ELSE LET text == value[1]
             hit(i) == DigitsIn(text[i]) # None
         IN  IF \E i \in 1..Len(text) : hit(i)
             THEN DigitsIn(text[CHOOSE i \in 1..Len(text) :
                                   hit(i) /\ \A j \in 1..(i-1) : ~hit(j)])
             ELSE None

\* lines 46-49: drop a leading "#<digits>"
clean_raw_excerpt(text) ==
    IF text # <<>> /\ Head(text) \in {"#0", "#1", "#3", "#5"} THEN Tail(text)
    ELSE IF Len(text) >= 2 /\ text[1] = "#" /\ text[2] \in {"0", "1", "3", "5", "7", "9"}
    THEN SubSeq(text, 3, Len(text))
    ELSE text

\* str.lower() of a text
Lower(text) == [i \in 1..Len(text) |-> LowerWord(text[i])]

\* Python truthiness of an optional string, an optional integer, a string
TruthyStr(o) == o # None /\ o[1] # <<>>
TruthyInt(o) == o # None /\ o[1] # 0
OrStr(a, b) == IF TruthyStr(a) THEN a ELSE b
OrInt(a, b) == IF TruthyInt(a) THEN a ELSE b
OrText(a, b) == IF a # <<>> THEN a ELSE b

(***************************************************************************)
(* The document.  A block is one top-level element with the sub-elements   *)
(* the parsers select inside it; an absent sub-element is None.            *)
(*   tag, cls, id      the element, its class list, its id attribute       *)
(*   keywords          the pieces of the keywords attribute between commas *)
(*   title_link        a.title-link: [text, href]; it is the first anchor  *)
(*                     of the block and a child of h2.title                *)
(*   heading           text of the first h1..h5                            *)
(*   title_cls         text of .title / .paper-title / .paper_title        *)
(*   author_as         texts of p.authors a.author                         *)
(*   authors_el        text of .authors / .paper-authors / .paper_authors  *)
(*   summary           text of p.summary or .abstract                      *)
(*   subjects          texts of p.subjects a                               *)
(*   index             text of h2.title span.index                         *)
(*   kimi_sup          text of the sup of a.title-kimi                     *)
(*   body, footer, header   texts of .maincardBody/Footer/Header           *)
(*   dt                dt.ptitle: [text, id]; the block is its parent      *)
(*   dds               the dd siblings after the dt: [cls, text]           *)
(*   anchors           the other anchors (find_all("a")) in document order,*)
(*                     each [href, data, dhref, durl, cls, text, sup, h2]  *)
(*   text              get_text of the whole block                         *)
(***************************************************************************)
Anchor(href, cls, text) ==
    [href |-> href, data |-> None, dhref |-> None, durl |-> None,
     cls |-> cls, text |-> text, sup |-> None, h2 |-> FALSE]

Block0 ==
    [tag |-> "div", cls |-> {}, id |-> None, keywords |-> <<>>,
     title_link |-> None, heading |-> None, title_cls |-> None,
     author_as |-> <<>>, authors_el |-> None, summary |-> None,
     subjects |-> <<>>, index |-> None, kimi_sup |-> None,
     body |-> None, footer |-> None, header |-> None,
     dt |-> None, dds |-> <<>>, anchors |-> <<>>, text |-> <<>>]

\* the anchors find_all("a") meets in the block, the title link first
all_anchors(block) ==
    (IF block.title_link = None THEN <<>>
     ELSE << [href |-> block.title_link[1].href, data |-> None, dhref |-> None,
              durl |-> None, cls |-> {"title-link"},
              text |-> block.title_link[1].text, sup |-> None, h2 |-> TRUE] >>)
    \o block.anchors

\* lines 352-353
base_url_of(d) ==
    IF d.base_tag # None /\ d.base_tag[1] # None /\ d.base_tag[1][1].kind # "empty"
    THEN d.base_tag[1]
    ELSE None

\* the dict a parser appends (lines 202-217, 236-249, 271-294, 330-345)
Entry(paper_id, index, title, authors, subjects, keywords, summary, session, links, scores, raw_excerpt) ==
    [paper_id |-> paper_id, index |-> index, title |-> title,
     authors |-> authors, subjects |-> subjects, keywords |-> keywords,
     summary |-> summary, session |-> session, time |-> None,
     links |-> links, scores |-> scores, raw_excerpt |-> raw_excerpt]

NoScores == Some([k \in {} |-> None])

\* a parser's or the classifier's exception
ParserRaised == [raised |-> TRUE, entries |-> <<>>]

\* the special-cased link stored as found
resolve_noop(base_url, url) == url

\* urljoin(base_url, url) if base_url else url, lines 174, 182, 189
resolve(base_url, url) ==
    IF base_url # None THEN urljoin(base_url[1], url) ELSE url

resolve_raises(base_url, url) == base_url # None /\ urljoin_raises(url)

\* Python truthiness of an attribute value (a URL string)
TruthyUrl(o) == o # None /\ o[1].kind # "empty"

(***************************************************************************)
(* parse_coolpapers_panels, one panel (lines 140-217).  The result is      *)
(* [skip, raised, entry].                                                  *)
(***************************************************************************)
IsPanel(block) == block.tag = "div" /\ {"panel", "paper"} \subseteq block.cls

Skip == [skip |-> TRUE, raised |-> FALSE, entry |-> None]
Raise1 == [skip |-> FALSE, raised |-> TRUE, entry |-> None]
Made(e) == [skip |-> FALSE, raised |-> FALSE, entry |-> Some(e)]

\* lines 165-172: the score of a.title-pdf
pdf_score_of(pdf_tag) ==
    IF pdf_tag = None THEN None
    ELSE IF pdf_tag[1].sup # None THEN to_int(pdf_tag[1].sup)
    ELSE to_int(Some(anchor_text(pdf_tag[1])))

panel_entry(block, base_url) ==
    LET title_anchor ==
            IF block.title_link # None THEN Some(block.title_link[1].text)
            ELSE block.heading
        title == title_anchor[1]
        extracted == extract_links(all_anchors(block), base_url)
        anchors == block.anchors
        is_pdf(i) == "title-pdf" \in anchors[i].cls
        pdf_tag == IF \E i \in 1..Len(anchors) : is_pdf(i)
                   THEN Some(anchors[CHOOSE i \in 1..Len(anchors) :
                                 is_pdf(i) /\ \A j \in 1..(i-1) : ~is_pdf(j)])
                   ELSE None
        pdf_url == IF pdf_tag = None THEN None
                   ELSE IF TruthyUrl(pdf_tag[1].data) THEN pdf_tag[1].data
                   ELSE pdf_tag[1].href
        h2as == all_anchors(block)
        is_detail(i) == h2as[i].h2 /\ h2as[i].href # None
        detail_url == IF \E i \in 1..Len(h2as) : is_detail(i)
                      THEN h2as[CHOOSE i \in 1..Len(h2as) :
                               is_detail(i) /\ \A j \in 1..(i-1) : ~is_detail(j)].href
                      ELSE None
        venue_url == IF block.title_link # None THEN block.title_link[1].href
                     ELSE None
        specials == << <<"pdf", pdf_url>>, <<"detail", detail_url>>,
                       <<"venue", venue_url>> >>
        RECURSIVE layer(_, _)
        layer(i, links) ==
            IF i > Len(specials) THEN links
            ELSE IF TruthyUrl(specials[i][2])
            THEN layer(i + 1, add_link(links, specials[i][1],
                                       resolve(base_url, specials[i][2][1])))
            ELSE layer(i + 1, links)
    IN  IF title_anchor = None THEN Skip
        ELSE IF title = <<>> THEN Skip
        ELSE IF extracted.raised THEN Raise1
        ELSE IF \E i \in 1..Len(specials) :
                   TruthyUrl(specials[i][2])
                   /\ resolve_raises(base_url, specials[i][2][1])
        THEN Raise1
        ELSE Made(Entry(block.id, to_int(block.index), title,
                        dedupe_preserve_order(block.author_as),
                        dedupe_preserve_order(block.subjects),
                        dedupe_preserve_order(block.keywords),
                        block.summary, None,
                        layer(1, extracted.links),
                        Some([k \in {"pdf", "kimi"} |->
                                 IF k = "pdf" THEN pdf_score_of(pdf_tag)
                                 ELSE to_int(block.kimi_sup)]),
                        clean_raw_excerpt(block.text)))

(***************************************************************************)
(* parse_maincards, one card (lines 224-250)                               *)
(***************************************************************************)
IsMaincard(block) == block.tag = "div" /\ "maincard" \in block.cls

maincard_entry(block, base_url) ==
    LET title == block.body[1]
        authors_text == IF block.footer # None THEN block.footer[1] ELSE title
        extracted == extract_links(all_anchors(block), base_url)
    IN  IF block.body = None THEN Skip
        ELSE IF title = <<>> THEN Skip
        ELSE IF extracted.raised THEN Raise1
        ELSE Made(Entry(block.id, None, title, split_authors(authors_text),
                        <<>>, <<>>, None, block.header, extracted.links,
                        NoScores, clean_raw_excerpt(block.text)))

(***************************************************************************)
(* parse_ptitles, one dt.ptitle (lines 257-295)                            *)
(***************************************************************************)
HasPtitle(block) == block.dt # None

\* lines 261-269: the walk over the dd siblings; classes is not lower-cased
RECURSIVE dd_walk(_, _, _)
dd_walk(dds, i, authors) ==
    IF i > Len(dds) THEN [authors |-> authors, dd |-> None]
    ELSE IF (\E c \in dds[i].cls : Contains(c, "authors"))
            \/ (\E c \in dds[i].cls : Contains(c, "pauthors"))
            \/ authors = <<>>
    THEN [authors |-> split_authors(dds[i].text), dd |-> Some(dds[i])]
    ELSE dd_walk(dds, i + 1, authors)

ptitle_entry(block, base_url) ==
    LET dt == block.dt[1]
        title == dt.text
        walked == dd_walk(block.dds, 1, <<>>)
        extracted == extract_links(all_anchors(block), base_url)
    IN  IF title = <<>> THEN Skip
        ELSE IF extracted.raised THEN Raise1
        ELSE Made(Entry(dt.id, None, title, walked.authors, <<>>, <<>>, None,
                        None, extracted.links, NoScores,
                        clean_raw_excerpt(
                            title \o (IF walked.dd = None THEN <<>>
                                      ELSE walked.dd[1].text))))

(***************************************************************************)
(* parse_generic_papers, one container (lines 303-346)                     *)
(***************************************************************************)
IsGeneric(block) ==
    \/ block.tag \in {"div", "li"} /\ "paper" \in block.cls
    \/ block.tag = "div" /\ "paper-item" \in block.cls
    \/ block.tag = "div" /\ "program-item" \in block.cls

generic_entry(block, base_url) ==
    LET title_tag == IF block.heading # None THEN block.heading
                     ELSE block.title_cls
        title == title_tag[1]
        extracted == extract_links(all_anchors(block), base_url)
    IN  IF "panel" \in block.cls /\ "paper" \in block.cls THEN Skip
        ELSE IF title_tag = None THEN Skip
        ELSE IF title = <<>> THEN Skip
        ELSE IF extracted.raised THEN Raise1
        ELSE Made(Entry(block.id, None, title,
                        split_authors(IF block.authors_el # None
                                      THEN block.authors_el[1] ELSE <<>>),
                        <<>>, <<>>, None, None, extracted.links, NoScores,
                        clean_raw_excerpt(block.text)))

(***************************************************************************)
(* The four parsers over the whole document, in the order of lines 356-361 *)
(***************************************************************************)
Parsers == <<"parse_coolpapers_panels", "parse_maincards", "parse_ptitles",
             "parse_generic_papers">>

selected(p, block) ==
    CASE p = 1 -> IsPanel(block)
      [] p = 2 -> IsMaincard(block)
      [] p = 3 -> HasPtitle(block)
      [] p = 4 -> IsGeneric(block)

one_entry(p, block, base_url) ==
    CASE p = 1 -> panel_entry(block, base_url)
      [] p = 2 -> maincard_entry(block, base_url)
      [] p = 3 -> ptitle_entry(block, base_url)
      [] p = 4 -> generic_entry(block, base_url)

\* a parser's loop: [raised, entries]
RECURSIVE parser_from(_, _, _, _, _)
parser_from(p, blocks, i, base_url, entries) ==
    IF i > Len(blocks) THEN [raised |-> FALSE, entries |-> entries]
    ELSE IF ~selected(p, blocks[i])
    THEN parser_from(p, blocks, i + 1, base_url, entries)
    ELSE LET got == one_entry(p, blocks[i], base_url)
         IN  IF got.raised THEN ParserRaised
             ELSE IF got.skip
             THEN parser_from(p, blocks, i + 1, base_url, entries)
             ELSE parser_from(p, blocks, i + 1, base_url,
                              Append(entries, got.entry[1]))

run_parser(p, d) == parser_from(p, d.blocks, 1, base_url_of(d), <<>>)

(***************************************************************************)
(* merge_entries (lines 101-133)                                           *)
(***************************************************************************)
\* lines 116-118: append the urls that dest lacks
RECURSIVE extend_new(_, _, _)
extend_new(dest, urls, i) ==
    IF i > Len(urls) THEN dest
    ELSE extend_new(IF InSeq(urls[i], dest) THEN dest ELSE Append(dest, urls[i]),
                    urls, i + 1)

\* the merge of links that keeps the existing list of a shared kind as it is
merge_links_keep(cur, new) ==
    [k \in (DOMAIN cur) \cup (DOMAIN new) |->
        IF k \in DOMAIN cur THEN cur[k] ELSE new[k]]

\* lines 113-119
merge_links(cur, new) ==
    [k \in (DOMAIN cur) \cup (DOMAIN new) |->
        IF k \in DOMAIN new
        THEN extend_new(IF k \in DOMAIN cur THEN cur[k] ELSE <<>>, new[k], 1)
        ELSE cur[k]]

\* the merge of scores with a truthiness test on the existing value
merge_scores_falsy(cur, new) ==
    LET c == IF cur = None THEN [k \in {} |-> None] ELSE cur[1]
        n == IF new = None THEN [k \in {} |-> None] ELSE new[1]
        get(k) == IF k \in DOMAIN c THEN c[k] ELSE None
        set == { k \in DOMAIN n : ~TruthyInt(get(k)) /\ n[k] # None }
        merged == [k \in (DOMAIN c) \cup set |-> IF k \in set THEN n[k] ELSE c[k]]
    IN  IF DOMAIN merged = {} THEN None ELSE Some(merged)

\* lines 121-125; a scores value is None or <<dict>>
merge_scores(cur, new) ==
    LET c == IF cur = None THEN [k \in {} |-> None] ELSE cur[1]
        n == IF new = None THEN [k \in {} |-> None] ELSE new[1]
        get(k) == IF k \in DOMAIN c THEN c[k] ELSE None
        set == { k \in DOMAIN n : get(k) = None /\ n[k] # None }
        merged == [k \in (DOMAIN c) \cup set |-> IF k \in set THEN n[k] ELSE c[k]]
    IN  IF DOMAIN merged = {} THEN None ELSE Some(merged)

merge_entries(current, new) ==
    [current EXCEPT
        !.authors = dedupe_preserve_order(current.authors \o new.authors),
        !.subjects = dedupe_preserve_order(current.subjects \o new.subjects),
        !.keywords = dedupe_preserve_order(current.keywords \o new.keywords),
        !.links = merge_links(current.links, new.links),
        !.scores = merge_scores(current.scores, new.scores),
        !.paper_id = OrStr(current.paper_id, new.paper_id),
        !.index = OrInt(current.index, new.index),
        !.session = OrStr(current.session, new.session),
        !.time = OrStr(current.time, new.time),
        !.summary = OrStr(current.summary, new.summary),
        !.raw_excerpt = OrText(current.raw_excerpt, new.raw_excerpt)]

(***************************************************************************)
(* The aggregation loop of extract_papers (lines 367-375).  deduped is the *)
(* sequence of its values in insertion order; a title from                 *)
(* get_text(" ", strip=True) has no outer blanks, so strip() keeps it.     *)
(***************************************************************************)
\* the key without lower-casing
title_key_raw(item) == item.title

\* line 369

title_key(item) == Lower(item.title)

RECURSIVE aggregate_from(_, _, _)
aggregate_from(cands, i, dd) ==
    IF i > Len(cands) THEN dd
    ELSE LET item == cands[i]
             key == title_key(item)
             at == { j \in 1..Len(dd) : title_key(dd[j]) = key }
         IN  IF key = <<>> THEN aggregate_from(cands, i + 1, dd)
             ELSE IF at # {}
             THEN LET j == CHOOSE j \in at : TRUE
                  IN  aggregate_from(cands, i + 1,
                          [dd EXCEPT ![j] = merge_entries(dd[j], item)])
             ELSE aggregate_from(cands, i + 1, Append(dd, item))

aggregate(cands) == aggregate_from(cands, 1, <<>>)

(***************************************************************************)
(* Ranking (lines 377-388): Python's stable sorted() with a key            *)
(***************************************************************************)
\* the title vocabulary in code-point order
CodeOrder == <<"Alpha", "Bravo", "Charlie", "alpha", "bravo", "charlie">>

WordRank(w) == CHOOSE i \in 1..Len(CodeOrder) : CodeOrder[i] = w

\* a < b for two texts
RECURSIVE TextLess(_, _)
TextLess(a, b) ==
    IF b = <<>> THEN FALSE
    ELSE IF a = <<>> THEN TRUE
    ELSE IF Head(a) = Head(b) THEN TextLess(Tail(a), Tail(b))
    ELSE WordRank(Head(a)) < WordRank(Head(b))

\* line 388 and line 423: key = title.lower()
key_less_title(x, y) == TextLess(Lower(x.title), Lower(y.title))

\* the key without its first component: (index or 0, title.lower())
key_less_index_noflag(x, y) ==
    LET ix == IF TruthyInt(x.index) THEN x.index[1] ELSE 0
        iy == IF TruthyInt(y.index) THEN y.index[1] ELSE 0
    IN  \/ ix < iy
        \/ ix = iy /\ TextLess(Lower(x.title), Lower(y.title))

\* lines 382-386: key = (index is None, index or 0, title.lower())
key_less_index(x, y) ==
    LET nx == x.index = None
        ny == y.index = None
        ix == IF TruthyInt(x.index) THEN x.index[1] ELSE 0
        iy == IF TruthyInt(y.index) THEN y.index[1] ELSE 0
    IN  \/ ~nx /\ ny
        \/ nx = ny /\ ix < iy
        \/ nx = ny /\ ix = iy /\ TextLess(Lower(x.title), Lower(y.title))

\* the comparison of the sort keys: by_index chooses the key of line 382
key_less(x, y, by_index) ==
    IF by_index THEN key_less_index(x, y) ELSE key_less_title(x, y)

\* insert x after every element that is not greater than it
RECURSIVE insert_sorted(_, _, _)
insert_sorted(sorted, x, by_index) ==
    IF sorted = <<>> THEN <<x>>
    ELSE IF key_less(x, Head(sorted), by_index) THEN <<x>> \o sorted
    ELSE <<Head(sorted)>> \o insert_sorted(Tail(sorted), x, by_index)

RECURSIVE sorted_from(_, _, _, _)
sorted_from(items, i, acc, by_index) ==
    IF i > Len(items) THEN acc
    ELSE sorted_from(items, i + 1, insert_sorted(acc, items[i], by_index),
                     by_index)

rank(ps) ==
    sorted_from(ps, 1, <<>>, \E i \in 1..Len(ps) : ps[i].index # None)

(***************************************************************************)
(* The fallback block scan (lines 391-423): [raised, papers]               *)
(***************************************************************************)
\* str.replace(title, ""): every occurrence of title removed
RECURSIVE remove_all(_, _)
remove_all(text, title) ==
    IF Len(text) < Len(title) THEN text
    ELSE IF SubSeq(text, 1, Len(title)) = title
    THEN remove_all(SubSeq(text, Len(title) + 1, Len(text)), title)
    ELSE <<Head(text)>> \o remove_all(Tail(text), title)

RECURSIVE scan_from(_, _, _, _)
scan_from(blocks, i, base_url, dd) ==
    IF i > Len(blocks)
    THEN [raised |-> FALSE, papers |-> sorted_from(dd, 1, <<>>, FALSE)]
    ELSE LET block == blocks[i]
             extracted == extract_links(all_anchors(block), base_url)
             title == block.heading[1]
             next(d) == scan_from(blocks, i + 1, base_url, d)
         IN  IF block.tag \notin {"article", "div", "li"} THEN next(dd)
             ELSE IF extracted.raised THEN [raised |-> TRUE, papers |-> <<>>]
             ELSE IF DOMAIN extracted.links = {} THEN next(dd)
             ELSE IF block.heading = None THEN next(dd)
             ELSE IF title = <<>> THEN next(dd)
             ELSE IF \E j \in 1..Len(dd) : Lower(dd[j].title) = Lower(title)
             THEN next(dd)
             ELSE next(Append(dd,
                     Entry(block.id, None, title,
                           split_authors(remove_all(block.text, title)),
                           <<>>, <<>>, None, None, extracted.links, NoScores,
                           clean_raw_excerpt(block.text))))

fallback_scan(d) == scan_from(d.blocks, 1, base_url_of(d), <<>>)

(***************************************************************************)
(* Inputs: URLs, anchors, blocks, documents                                *)
(***************************************************************************)
BaseHref == Url(TRUE, <<"conf", "2024">>)
UPdfRel == Url(FALSE, <<"files", "1.pdf">>)
UArxivPdf == Url(TRUE, <<"arxiv", "pdf", "1">>)
UArxiv == Url(TRUE, <<"ArXiv", "abs", "1">>)
UDetail == Url(FALSE, <<"paper.html">>)
UVenue == Url(FALSE, <<"venue", "x">>)
UPlain == Url(TRUE, <<"x">>)
URel == Url(FALSE, <<"x">>)
UVideo == Url(TRUE, <<"youtube", "v">>)
USlides == Url(TRUE, <<"x", "slides">>)
UUpper == Url(TRUE, <<"PDF", "1">>)

ADetail == Anchor(Some(UDetail), {}, <<"Paper">>)
AArxivPdf == Anchor(Some(UArxivPdf), {}, <<>>)
AArxiv == Anchor(Some(UArxiv), {}, <<"ArXiv">>)
AAuthor == Anchor(Some(URel), {"author"}, <<"Jane">>)
APdfSup == [Anchor(None, {"title-pdf"}, <<"[PDF]">>) EXCEPT
               !.data = Some(UPdfRel), !.sup = Some(<<"0">>), !.h2 = TRUE]
AVenue == Anchor(Some(UVenue), {"title-link"}, <<"Alpha">>)
ANoUrl == Anchor(None, {}, <<"Paper">>)
AVideo == [Anchor(Some(UrlBlank), {}, <<>>) EXCEPT !.durl = Some(UVideo)]
ASuppLabel == Anchor(Some(USlides), {}, <<"Supp">>)
APlain == Anchor(Some(UPlain), {}, <<"Paper">>)
ABad == Anchor(Some(UrlBad), {}, <<>>)
AArxivVenue == Anchor(Some(UArxiv), {"title-link"}, <<"Slides">>)
AUpper == Anchor(Some(UUpper), {}, <<>>)
APdfLabel == Anchor(Some(UPlain), {}, <<"[PDF]">>)
APdfNine == [Anchor(Some(UPdfRel), {"title-pdf"}, <<"[PDF]">>) EXCEPT
                !.data = Some(UArxivPdf), !.sup = Some(<<"9">>), !.h2 = TRUE]
APdfNoDigit == [Anchor(Some(UPlain), {"title-pdf"}, <<"[PDF]", "9">>) EXCEPT
                   !.sup = Some(<<"new">>), !.h2 = TRUE]
APdfText == [Anchor(Some(URel), {"title-pdf"}, <<"[PDF]", "5">>) EXCEPT !.h2 = TRUE]

AnchorPool ==
    { ADetail, AArxivPdf, AArxiv, AAuthor, APdfSup, AVenue, ANoUrl, AVideo,
      ASuppLabel, APlain, ABad, AArxivVenue, AUpper, APdfLabel }

SeqsUpTo(S, n) == UNION { [1..k -> S] : k \in 0..n }

\* div.panel.paper cards
P1 == [Block0 EXCEPT
         !.cls = {"panel", "paper"}, !.id = Some(<<"p1">>),
         !.title_link = Some([text |-> <<"Alpha">>, href |-> Some(UVenue)]),
         !.index = Some(<<"#0">>),
         !.author_as = << <<"Jane">>, <<"Jane">>, <<>>, <<"Bob">> >>,
         !.subjects = << <<"ML">>, <<"ML">> >>,
         !.keywords = << <<"nlp">>, <<>>, <<"nlp">>, <<"cv">> >>,
         !.summary = Some(<<"Sum1">>),
         !.anchors = <<APdfSup, AAuthor>>,
         !.text = <<"#0", "Alpha", "[PDF]", "0", "Jane", "Jane", "Bob">>]
P2 == [Block0 EXCEPT
         !.cls = {"panel", "paper"}, !.id = Some(<<>>),
         !.title_link = Some([text |-> <<"alpha">>, href |-> None]),
         !.index = Some(<<"#5">>),
         !.author_as = << <<"Bob">>, <<"Carol">> >>,
         !.subjects = << <<"CV">> >>,
         !.keywords = << <<"cv">> >>,
         !.summary = Some(<<>>),
         !.kimi_sup = Some(<<"3">>),
         !.anchors = <<APdfNine>>,
         !.text = <<"#5", "alpha", "[PDF]", "9", "Bob", "Carol">>]
P3 == [Block0 EXCEPT
         !.cls = {"panel", "paper"}, !.id = Some(<<"p3">>),
         !.heading = Some(<<"Bravo">>),
         !.anchors = <<APdfNoDigit, AArxiv>>,
         !.text = <<"Bravo", "[PDF]", "9", "new", "ArXiv">>]
P4 == [Block0 EXCEPT
         !.cls = {"panel", "paper"},
         !.title_link = Some([text |-> <<"bravo">>, href |-> Some(UDetail)]),
         !.index = Some(<<"#5">>),
         !.kimi_sup = Some(<<"9">>),
         !.summary = Some(<<"Sum4">>),
         !.anchors = <<APdfText, ABad>>,
         !.text = <<"#5", "bravo", "[PDF]", "5">>]
\* div.maincard cards
M1 == [Block0 EXCEPT
         !.cls = {"maincard"}, !.id = Some(<<"m1">>),
         !.body = Some(<<"Alpha">>),
         !.footer = Some(<<"Jane", ",", "Jane", "and", "Dan">>),
         !.header = Some(<<"S1">>),
         !.anchors = <<ADetail, APdfLabel>>,
         !.text = <<"S1", "Alpha", "Jane", ",", "Jane", "and", "Dan", "Paper", "[PDF]">>]
M2 == [Block0 EXCEPT
         !.cls = {"maincard"},
         !.body = Some(<<"alpha">>),
         !.header = Some(<<"S2">>),
         !.anchors = <<APlain, ASuppLabel>>,
         !.text = <<"S2", "alpha", "Paper", "Supp">>]
\* a dl with a dt.ptitle and its dd siblings
D1 == [Block0 EXCEPT
         !.tag = "dl",
         !.dt = Some([text |-> <<"Charlie">>, id |-> Some(<<"d1">>)]),
         !.dds = << [cls |-> {}, text |-> <<"Intro">>],
                    [cls |-> {"authors"}, text |-> <<"Eve", ";", "Eve">>] >>,
         !.anchors = <<AArxivVenue, AArxiv, ABad>>,
         !.text = <<"Charlie", "Intro", "Eve", ";", "Eve", "Slides", "ArXiv">>]
\* generic containers
G1 == [Block0 EXCEPT
         !.cls = {"paper"}, !.id = Some(<<"g1">>),
         !.heading = Some(<<"Bravo">>),
         !.authors_el = Some(<<"Frank", "&", "Gina", ",", "Frank">>),
         !.anchors = <<AArxivPdf, AVideo>>,
         !.text = <<"Bravo", "Frank", "&", "Gina", ",", "Frank">>]
G2 == [Block0 EXCEPT
         !.cls = {"program-item"},
         !.title_cls = Some(<<"alpha">>),
         !.anchors = <<ABad, AUpper>>,
         !.text = <<"alpha">>]
\* containers no structural parser selects
F1 == [Block0 EXCEPT
         !.heading = Some(<<"Alpha">>), !.id = Some(<<"f1">>),
         !.anchors = <<APlain, ANoUrl>>,
         !.text = <<"Alpha", "Jane", ",", "Jane", "Paper", "Paper">>]
F2 == [Block0 EXCEPT
         !.tag = "article",
         !.heading = Some(<<"alpha">>),
         !.anchors = <<ADetail>>,
         !.text = <<"alpha", "Hal", "Paper">>]
F3 == [Block0 EXCEPT
         !.tag = "li",
         !.heading = Some(<<"Bravo">>),
         !.anchors = <<AVenue, ABad>>,
         !.text = <<"Bravo", "Alpha">>]
F4 == [Block0 EXCEPT
         !.heading = Some(<<"Charlie">>),
         !.anchors = <<AAuthor>>,
         !.text = <<"Charlie", "Jane">>]

BlockPool == {P1, P2, P3, P4, M1, M2, D1, G1, G2, F1, F2, F3, F4}

\* the base element: absent, with an empty href, with a href
BaseTags == {None, Some(Some(UrlEmpty)), Some(Some(BaseHref))}

Docs == { [base_tag |-> b, blocks |-> bs] :
            b \in BaseTags, bs \in SeqsUpTo(BlockPool, MaxBlocks) }

NoDoc == [base_tag |-> None, blocks |-> <<>>]

\* the parts of the state a specification about another entry point holds fixed
ExtractIdle ==
    /\ doc = NoDoc
    /\ pc = "idle"
    /\ parser_i = 1
    /\ candidates = <<>>
    /\ failed = {}
    /\ deduped = <<>>
    /\ papers = <<>>
    /\ ran = <<>>
    /\ scanned = FALSE
    /\ lk_tag = <<>>
    /\ lk_base = None
    /\ lk_out = None

BatchIdle ==
    /\ html_files = <<>>
    /\ file_i = 1
    /\ main_pc = "idle"
    /\ printed = <<>>
    /\ out_files = [i \in {} |-> 0]

IngestIdle ==
    /\ json_files = <<>>
    /\ batch_size = 1
    /\ checkpoint = [offsets |-> [i \in {} |-> 0], done |-> {}]
    /\ run_pc = "idle"
    /\ path_i = 1
    /\ batch_start = 0
    /\ upserted = {}
    /\ resumed = FALSE

(***************************************************************************)
(* extract_papers as a state machine                                       *)
(***************************************************************************)
Init ==
    /\ doc \in Docs
    /\ pc = "parse"
    /\ parser_i = 1
    /\ candidates = <<>>
    /\ failed = {}
    /\ deduped = <<>>
    /\ papers = <<>>
    /\ ran = <<>>
    /\ scanned = FALSE
    /\ lk_tag = <<>>
    /\ lk_base = None
    /\ lk_out = None
    /\ BatchIdle
    /\ IngestIdle

links_vars == <<lk_tag, lk_base, lk_out>>

\* lines 356-365: one turn of the loop over the parsers
RunParser ==
    /\ pc = "parse"
    /\ LET got == run_parser(parser_i, doc)
       IN  \/ /\ got.raised
              /\ failed' = failed \cup {Parsers[parser_i]}
              /\ UNCHANGED candidates
           \/ /\ ~got.raised
              /\ candidates' = candidates \o got.entries
              /\ UNCHANGED failed
    /\ ran' = Append(ran, Parsers[parser_i])
    /\ parser_i' = parser_i + 1
    /\ pc' = IF parser_i = Len(Parsers) THEN "aggregate" ELSE "parse"
    /\ UNCHANGED <<doc, deduped, papers, scanned, links_vars>>
    /\ UNCHANGED <<batch_vars, ingest_vars>>

\* the aggregation that also falls back when a parser had failed
Aggregate_scan_on_failure ==
    /\ pc = "aggregate"
    /\ deduped' = aggregate(candidates)
    /\ pc' = IF deduped' # <<>> /\ failed = {} THEN "rank" ELSE "fallback"
    /\ UNCHANGED <<doc, parser_i, candidates, failed, papers, ran, scanned,
                   links_vars>>
    /\ UNCHANGED <<batch_vars, ingest_vars>>

\* lines 367-378
Aggregate ==
    /\ pc = "aggregate"
    /\ deduped' = aggregate(candidates)
    /\ pc' = IF deduped' # <<>> THEN "rank" ELSE "fallback"
    /\ UNCHANGED <<doc, parser_i, candidates, failed, papers, ran, scanned,
                   links_vars>>
    /\ UNCHANGED <<batch_vars, ingest_vars>>

\* lines 379-388
Rank ==
    /\ pc = "rank"
    /\ papers' = rank(deduped)
    /\ pc' = "done"
    /\ UNCHANGED <<doc, parser_i, candidates, failed, deduped, ran, scanned,
                   links_vars>>
    /\ UNCHANGED <<batch_vars, ingest_vars>>

\* lines 391-423
FallbackScan ==
    /\ pc = "fallback"
    /\ LET got == fallback_scan(doc)
       IN  \/ /\ got.raised
              /\ pc' = "raised"
              /\ UNCHANGED papers
           \/ /\ ~got.raised
              /\ pc' = "done"
              /\ papers' = got.papers
    /\ scanned' = TRUE
    /\ UNCHANGED <<doc, parser_i, candidates, failed, deduped, ran, links_vars>>
    /\ UNCHANGED <<batch_vars, ingest_vars>>

Next == RunParser \/ Aggregate \/ Rank \/ FallbackScan

Spec == Init /\ [][Next]_vars

(***************************************************************************)
(* One call of extract_links on the anchors of a tag                       *)
(***************************************************************************)
InitLinks ==
    /\ lk_tag \in SeqsUpTo(AnchorPool, MaxAnchors)
    /\ lk_base \in {None, Some(BaseHref)}
    /\ lk_out = None
    /\ doc = NoDoc
    /\ pc = "idle"
    /\ parser_i = 1
    /\ candidates = <<>>
    /\ failed = {}
    /\ deduped = <<>>
    /\ papers = <<>>
    /\ ran = <<>>
    /\ scanned = FALSE
    /\ BatchIdle
    /\ IngestIdle

ExtractLinksCall ==
    /\ lk_out = None
    /\ lk_out' = Some(extract_links(lk_tag, lk_base))
    /\ UNCHANGED <<doc, pc, parser_i, candidates, failed, deduped, papers, ran,
                   scanned, lk_tag, lk_base>>
    /\ UNCHANGED <<batch_vars, ingest_vars>>

NextLinks == ExtractLinksCall

SpecLinks == InitLinks /\ [][NextLinks]_vars

(***************************************************************************)
(* extract_papers as one function of the document (lines 351-423):         *)
(* [raised, papers]                                                        *)
(***************************************************************************)
\* lines 355-365: the candidates of the parsers that did not raise
RECURSIVE structural_from(_, _, _)
structural_from(d, p, cands) ==
    IF p > Len(Parsers) THEN cands
    ELSE LET got == run_parser(p, d)
         IN  structural_from(d, p + 1,
                             IF got.raised THEN cands ELSE cands \o got.entries)

\* lines 377-423: rank the merged records, or scan when there is none
rank_or_scan(d, dd) ==
    IF dd # <<>> THEN [raised |-> FALSE, papers |-> rank(dd)]
    ELSE fallback_scan(d)

extract_papers(d) == rank_or_scan(d, aggregate(structural_from(d, 1, <<>>)))

(***************************************************************************)
(* parse_file and the batch loop of main (lines 452-492).  A file is       *)
(* [exists, raw, soup]: whether the path exists; what read_text yields     *)
(* ("empty", "blank" for whitespace only, "undecodable" when decoding as   *)
(* UTF-8 raises, "html"); and the document BeautifulSoup makes of it.      *)
(* The i-th file of html_files has a path and a stem of its own.           *)
(***************************************************************************)
HtmlFile(exists, raw, soup) == [exists |-> exists, raw |-> raw, soup |-> soup]

\* lines 461-473: the output made of what extract_papers gave
output_of(got) ==
    IF got.raised THEN [ok |-> FALSE, paper_count |-> 0]
    ELSE [ok |-> TRUE, paper_count |-> Len(got.papers)]

\* parse_file without the test of line 457
parse_file_no_empty_check(f) ==
    IF ~f.exists THEN [ok |-> FALSE, paper_count |-> 0]
    ELSE IF f.raw = "undecodable" THEN [ok |-> FALSE, paper_count |-> 0]
    ELSE output_of(extract_papers(f.soup))

\* lines 452-473: [ok, paper_count]; ok is FALSE when parse_file raises
parse_file(f) ==
    IF ~f.exists THEN [ok |-> FALSE, paper_count |-> 0]
    ELSE IF f.raw = "undecodable" THEN [ok |-> FALSE, paper_count |-> 0]
    ELSE IF f.raw \in {"empty", "blank"} THEN [ok |-> FALSE, paper_count |-> 0]
    ELSE output_of(extract_papers(f.soup))

MaxFiles == 2

Html(base_tag, blocks) ==
    HtmlFile(TRUE, "html", [base_tag |-> base_tag, blocks |-> blocks])

FMissing == HtmlFile(FALSE, "html", NoDoc)
FEmpty == HtmlFile(TRUE, "empty", NoDoc)
FBlank == HtmlFile(TRUE, "blank", NoDoc)
FBinary == HtmlFile(TRUE, "undecodable", NoDoc)
FNoPapers == Html(None, <<>>)
FNoLinks == Html(None, <<F4>>)
FOne == Html(None, <<P1>>)
FTwo == Html(Some(Some(BaseHref)), <<M1, G1>>)
FRaises == Html(Some(Some(BaseHref)), <<G2>>)

FilePool ==
    { FMissing, FEmpty, FBlank, FBinary, FNoPapers, FNoLinks, FOne, FTwo,
      FRaises }

InitBatch ==
    /\ html_files \in SeqsUpTo(FilePool, MaxFiles)
    /\ file_i = 1
    /\ main_pc = "start"
    /\ printed = <<>>
    /\ out_files = [i \in {} |-> 0]
    /\ ExtractIdle
    /\ IngestIdle

\* lines 485-486
MainStart ==
    /\ main_pc = "start"
    /\ main_pc' = IF html_files = <<>> THEN "exit" ELSE "loop"
    /\ UNCHANGED <<html_files, file_i, printed, out_files>>
    /\ UNCHANGED <<doc, pc, parser_i, candidates, failed, deduped, papers, ran,
                   scanned, links_vars, ingest_vars>>

\* lines 488-492: one turn of the loop, parse_file included
ParseOne ==
    /\ main_pc = "loop"
    /\ \E got \in {parse_file(html_files[file_i])} :
           \/ /\ got.ok
              /\ out_files' = [j \in DOMAIN out_files \cup {file_i} |->
                                 IF j = file_i THEN got.paper_count
                                 ELSE out_files[j]]
              /\ printed' = Append(printed,
                                   [tag |-> "ok", file |-> file_i,
                                    count |-> Some(got.paper_count)])
           \/ /\ ~got.ok
              /\ printed' = Append(printed,
                                   [tag |-> "fail", file |-> file_i,
                                    count |-> None])
              /\ UNCHANGED out_files
    /\ file_i' = file_i + 1
    /\ main_pc' = IF file_i = Len(html_files) THEN "done" ELSE "loop"
    /\ UNCHANGED html_files
    /\ UNCHANGED <<doc, pc, parser_i, candidates, failed, deduped, papers, ran,
                   scanned, links_vars, ingest_vars>>

NextBatch == MainStart \/ ParseOne

SpecBatch == InitBatch /\ [][NextBatch]_vars

(***************************************************************************)
(* src/supabase_ingest.py: main, ingest_file and the checkpoint.           *)
(* A JSON file is the list of its papers, each paper being TRUE when it    *)
(* has a paper_id and a title (the rows build_rows keeps, line 47).  Paper *)
(* positions count from 1, offsets from 0: the batch that starts at offset *)
(* s and ends at e holds the papers s+1..e.                                *)
(* The checkpoint variable is the checkpoint file: save_checkpoint         *)
(* replaces it atomically (line 82), every successful path of ingest_file  *)
(* saves right after it changes the dict, and an exception ends the run    *)
(* (line 185), so the dict in memory is never read while it differs.       *)
(* A step that does I/O (reading the file, the embedding service, the      *)
(* upsert, writing the checkpoint) may raise.                              *)
(***************************************************************************)
MaxPapers == 3

\* ingest_file's batch_size (line 103), scaled down with the files
BatchSizes == {1, 2}

PaperLists == SeqsUpTo(BOOLEAN, MaxPapers)

\* sorted(input_dir.glob("*.json")): no file, one file, two files
JsonFileLists ==
    {<<>>} \cup { <<a>> : a \in PaperLists }
           \cup { <<a, b>> : a \in PaperLists, b \in PaperLists }

Min(a, b) == IF a <= b THEN a ELSE b

\* line 108, 165: checkpoint["offsets"].get(str(path), 0)
offset_of(cp, f) == IF f \in DOMAIN cp.offsets THEN cp.offsets[f] ELSE 0

\* lines 111-112, 141-142: the file marked done, its offset dropped
mark_done(cp, f) ==
    [offsets |-> [g \in DOMAIN cp.offsets \ {f} |-> cp.offsets[g]],
     done |-> cp.done \cup {f}]

\* line 134
set_offset(cp, f, offset) ==
    [cp EXCEPT !.offsets = [g \in DOMAIN cp.offsets \cup {f} |->
                               IF g = f THEN offset ELSE cp.offsets[g]]]

\* lines 44-48: the positions of the rows build_rows makes of papers[start:end]
build_rows(papers_of, s, e) == { k \in (s + 1)..e : papers_of[k] }

\* lines 163-167: the rows main counts as remaining
RECURSIVE total_remaining_from(_, _, _)
total_remaining_from(files, cp, f) ==
    IF f > Len(files) THEN 0
    ELSE (IF Len(files[f]) > offset_of(cp, f)
          THEN Len(files[f]) - offset_of(cp, f) ELSE 0)
         + total_remaining_from(files, cp, f + 1)

InitIngest ==
    /\ json_files \in JsonFileLists
    /\ batch_size \in BatchSizes
    /\ checkpoint = [offsets |-> [i \in {} |-> 0], done |-> {}]
    /\ run_pc = "start"
    /\ path_i = 1
    /\ batch_start = 0
    /\ upserted = {}
    /\ resumed = FALSE
    /\ ExtractIdle
    /\ BatchIdle

other_vars == <<doc, pc, parser_i, candidates, failed, deduped, papers, ran,
                scanned, links_vars, batch_vars>>

\* lines 152-173: a run of main up to its loop; load_checkpoint reads the file
IngestMainBegin ==
    /\ run_pc = "start"
    /\ run_pc' = IF json_files = <<>> THEN "exit"
                 ELSE IF total_remaining_from(json_files, checkpoint, 1) = 0
                 THEN "end"
                 ELSE "files"
    /\ path_i' = 1
    /\ UNCHANGED <<json_files, batch_size, checkpoint, batch_start, upserted,
                   resumed, other_vars>>

\* lines 176-178
SkipDone ==
    /\ run_pc = "files"
    /\ path_i <= Len(json_files)
    /\ path_i \in checkpoint.done
    /\ path_i' = path_i + 1
    /\ UNCHANGED <<json_files, batch_size, checkpoint, run_pc, batch_start,
                   upserted, resumed, other_vars>>

\* lines 179-181, 105-119: ingest_file up to its loop
BeginIngest ==
    /\ run_pc = "files"
    /\ path_i <= Len(json_files)
    /\ path_i \notin checkpoint.done
    /\ LET total == Len(json_files[path_i])
           offset == offset_of(checkpoint, path_i)
       IN  \/ \* line 105 raises
              /\ run_pc' = "stopped"
              /\ UNCHANGED <<checkpoint, path_i, batch_start, resumed>>
           \/ \* lines 110-115
              /\ offset >= total
              /\ checkpoint' = mark_done(checkpoint, path_i)
              /\ path_i' = path_i + 1
              /\ UNCHANGED <<run_pc, batch_start, resumed>>
           \/ \* line 113 raises
              /\ offset >= total
              /\ run_pc' = "stopped"
              /\ UNCHANGED <<checkpoint, path_i, batch_start, resumed>>
           \/ \* lines 117-119
              /\ offset < total
              /\ run_pc' = "batch"
              /\ batch_start' = offset
              /\ resumed' = (resumed \/ offset > 0)
              /\ UNCHANGED <<checkpoint, path_i>>
    /\ UNCHANGED <<json_files, batch_size, upserted, other_vars>>

\* one turn of the loop that writes the offset before it upserts
IngestBatch_save_before_upsert ==
    /\ run_pc = "batch"
    /\ batch_start < Len(json_files[path_i])
    /\ LET end == Min(batch_start + batch_size, Len(json_files[path_i]))
           batch_rows == build_rows(json_files[path_i], batch_start, end)
           sent == { <<path_i, k>> : k \in batch_rows }
       IN  \/ /\ batch_rows = {}
              /\ batch_start' = end
              /\ UNCHANGED <<checkpoint, run_pc, upserted>>
           \/ /\ batch_rows # {}
              /\ run_pc' = "stopped"
              /\ checkpoint' = set_offset(checkpoint, path_i, end)
              /\ UNCHANGED <<batch_start, upserted>>
           \/ /\ batch_rows # {}
              /\ upserted' = upserted \cup sent
              /\ checkpoint' = set_offset(checkpoint, path_i, end)
              /\ batch_start' = end
              /\ UNCHANGED run_pc
    /\ UNCHANGED <<json_files, batch_size, path_i, resumed, other_vars>>

\* lines 121-139: one turn of the loop over the batches
IngestBatch ==
    /\ run_pc = "batch"
    /\ batch_start < Len(json_files[path_i])
    /\ LET end == Min(batch_start + batch_size, Len(json_files[path_i]))
           batch_rows == build_rows(json_files[path_i], batch_start, end)
           sent == { <<path_i, k>> : k \in batch_rows }
       IN  \/ \* lines 124-125
              /\ batch_rows = {}
              /\ batch_start' = end
              /\ UNCHANGED <<checkpoint, run_pc, upserted>>
           \/ \* line 50 or line 127 raises
              /\ batch_rows # {}
              /\ run_pc' = "stopped"
              /\ UNCHANGED <<checkpoint, batch_start, upserted>>
           \/ \* line 135 raises
              /\ batch_rows # {}
              /\ upserted' = upserted \cup sent
              /\ run_pc' = "stopped"
              /\ UNCHANGED <<checkpoint, batch_start>>
           \/ \* lines 127-135
              /\ batch_rows # {}
              /\ upserted' = upserted \cup sent
              /\ checkpoint' = set_offset(checkpoint, path_i, end)
              /\ batch_start' = end
              /\ UNCHANGED run_pc
    /\ UNCHANGED <<json_files, batch_size, path_i, resumed, other_vars>>

\* lines 141-148: after the last batch
FinishFile ==
    /\ run_pc = "batch"
    /\ batch_start >= Len(json_files[path_i])
    /\ \/ /\ checkpoint' = mark_done(checkpoint, path_i)
          /\ path_i' = path_i + 1
          /\ run_pc' = "files"
       \/ \* line 146 raises
          /\ run_pc' = "stopped"
          /\ UNCHANGED <<checkpoint, path_i>>
    /\ UNCHANGED <<json_files, batch_size, batch_start, upserted, resumed,
                   other_vars>>

\* line 175: the loop is over
IngestMainEnd ==
    /\ run_pc = "files"
    /\ path_i > Len(json_files)
    /\ run_pc' = "end"
    /\ UNCHANGED <<json_files, batch_size, checkpoint, path_i, batch_start,
                   upserted, resumed, other_vars>>

\* the script is started again after a run that ended or was aborted (the
\* except of lines 183-185 leaves the loop)
Restart ==
    /\ run_pc \in {"stopped", "end"}
    /\ run_pc' = "start"
    /\ UNCHANGED <<json_files, batch_size, checkpoint, path_i, batch_start,
                   upserted, resumed, other_vars>>

NextIngest ==
    \/ IngestMainBegin
    \/ SkipDone
    \/ BeginIngest
    \/ IngestBatch
    \/ FinishFile
    \/ IngestMainEnd
    \/ Restart

SpecIngest == InitIngest /\ [][NextIngest]_vars

(***************************************************************************)
(* Properties                                                              *)
(***************************************************************************)
AfterAggregate == pc \in {"rank", "fallback", "done", "raised"}
Returned == pc = "done"

\* the candidates that share a normalized title, in candidate order
Group(key) == SelectSeq(candidates, LAMBDA c : Lower(c.title) = key)

NoDup(s) == \A i, j \in 1..Len(s) : i # j => s[i] # s[j]
NoEmpty(s) == \A i \in 1..Len(s) : s[i] # <<>>

\* C1: no two records returned by extract_papers have equal normalized
\* (trimmed, lower-cased) titles, on the structural path and on the
\* fallback path.
C1_TitleUnique ==
    Returned =>
        \A i, j \in 1..Len(papers) :
            i # j => Lower(papers[i].title) # Lower(papers[j].title)

\* C1 witness: a returned document in which two candidates written in
\* different case collided on one normalized title.
C1_Witness ==
    /\ Returned
    /\ papers # <<>>
    /\ \E i, j \in 1..Len(candidates) :
          /\ i # j
          /\ candidates[i].title # candidates[j].title
          /\ Lower(candidates[i].title) = Lower(candidates[j].title)

\* C2: in every returned record authors, subjects, keywords and every
\* links[kind] hold no duplicate and no empty string.
C2_ListsClean ==
    Returned =>
        \A i \in 1..Len(papers) :
            LET p == papers[i]
            IN  /\ NoDup(p.authors) /\ NoEmpty(p.authors)
                /\ NoDup(p.subjects) /\ NoEmpty(p.subjects)
                /\ NoDup(p.keywords) /\ NoEmpty(p.keywords)
                /\ \A k \in DOMAIN p.links :
                      NoDup(p.links[k])
                      /\ \A n \in 1..Len(p.links[k]) : p.links[k][n].kind # "empty"

ScoreKeys == {"pdf", "kimi"}

ScoreOf(e, k) ==
    IF e.scores = None THEN None
    ELSE IF k \in DOMAIN e.scores[1] THEN e.scores[1][k]
    ELSE None

\* the first value of a sequence of optional values that is present
FirstPresent(vals) ==
    IF \E i \in 1..Len(vals) : vals[i] # None
    THEN vals[CHOOSE i \in 1..Len(vals) :
                 vals[i] # None /\ \A j \in 1..(i-1) : vals[j] = None]
    ELSE None

\* C3: for every score key the canonical record holds the first present
\* (non-null) value among its same-title candidates, a first value of 0
\* included: a present score is never overwritten, a null one is filled.
C3_ScoresFirstWriter ==
    AfterAggregate =>
        \A d \in 1..Len(deduped) : \A k \in ScoreKeys :
            LET cs == Group(Lower(deduped[d].title))
            IN  ScoreOf(deduped[d], k)
                    = FirstPresent([i \in 1..Len(cs) |-> ScoreOf(cs[i], k)])

\* C3 witness: a canonical record merged from a first candidate scoring 0
\* and a later candidate with another present score for the same key, and
\* with a key the first candidate left null and a later one filled.
C3_Witness ==
    /\ AfterAggregate
    /\ \E d \in 1..Len(deduped) :
          LET cs == Group(Lower(deduped[d].title))
          IN  /\ Len(cs) >= 2
              /\ ScoreOf(cs[1], "pdf") = Some(0)
              /\ ScoreOf(cs[2], "pdf") \notin {None, Some(0)}
              /\ ScoreOf(cs[1], "kimi") = None
              /\ ScoreOf(cs[2], "kimi") # None
              /\ ScoreOf(deduped[d], "pdf") = Some(0)

\* present: not None and, for a text, not empty; every integer is present
PresentText(o) == IF o # None /\ o[1] # <<>> THEN o ELSE None
PresentAny(o) == o

\* C4: for paper_id, index, session, time, summary and raw_excerpt the
\* canonical record holds the first present value among its same-title
\* candidates, every non-negative index counting as present.
C4_FirstPresentWins ==
    AfterAggregate =>
        \A d \in 1..Len(deduped) :
            LET cs == Group(Lower(deduped[d].title))
                first(f(_), g(_)) ==
                    FirstPresent([i \in 1..Len(cs) |-> g(f(cs[i]))])
                kept(f(_), g(_)) ==
                    first(f, g) # None => f(deduped[d]) = first(f, g)
                pid(e) == e.paper_id
                idx(e) == e.index
                ses(e) == e.session
                tim(e) == e.time
                sum(e) == e.summary
                raw(e) == Some(e.raw_excerpt)
            IN  /\ kept(pid, PresentText)
                /\ kept(idx, PresentAny)
                /\ kept(ses, PresentText)
                /\ kept(tim, PresentText)
                /\ kept(sum, PresentText)
                /\ kept(raw, PresentText)

\* the distinct entries of a in first-seen order
RECURSIVE Distinct(_)
Distinct(a) ==
    IF a = <<>> THEN <<>>
    ELSE LET init == Distinct(SubSeq(a, 1, Len(a) - 1))
             last == a[Len(a)]
         IN  IF InSeq(last, init) THEN init ELSE Append(init, last)

RECURSIVE Concat(_)
Concat(ss) == IF ss = <<>> THEN <<>> ELSE Head(ss) \o Concat(Tail(ss))

LinksOf(e, k) == IF k \in DOMAIN e.links THEN e.links[k] ELSE <<>>

\* C5: a canonical record merged from several candidates holds, for
\* authors, subjects, keywords and each link kind of any candidate, every
\* entry of every candidate exactly once, the earlier candidate's entries
\* first and each in first-seen order; every link kind of a candidate is
\* a key of the merged links.
C5_MergeKeepsLists ==
    AfterAggregate =>
        \A d \in 1..Len(deduped) :
            LET cs == Group(Lower(deduped[d].title))
                m == deduped[d]
                all(f(_)) == Concat([i \in 1..Len(cs) |-> f(cs[i])])
                au(e) == e.authors
                su(e) == e.subjects
                kw(e) == e.keywords
            IN  Len(cs) >= 2 =>
                  /\ m.authors = Distinct(all(au))
                  /\ m.subjects = Distinct(all(su))
                  /\ m.keywords = Distinct(all(kw))
                  /\ DOMAIN m.links = UNION { DOMAIN cs[i].links : i \in 1..Len(cs) }
                  /\ \A k \in DOMAIN m.links :
                        m.links[k]
                          = Distinct(Concat([i \in 1..Len(cs) |-> LinksOf(cs[i], k)]))

\* C5 witness: a merge in which the incoming candidate brings an author the
\* existing one has, an author it lacks, a link kind it lacks and a new URL
\* for a kind it has.
C5_Witness ==
    /\ AfterAggregate
    /\ \E d \in 1..Len(deduped) :
          LET cs == Group(Lower(deduped[d].title))
          IN  /\ Len(cs) >= 2
              /\ \E a \in 1..Len(cs[2].authors) : InSeq(cs[2].authors[a], cs[1].authors)
              /\ \E a \in 1..Len(cs[2].authors) : ~InSeq(cs[2].authors[a], cs[1].authors)
              /\ DOMAIN cs[2].links \ DOMAIN cs[1].links # {}
              /\ \E k \in DOMAIN cs[1].links \cap DOMAIN cs[2].links :
                    \E n \in 1..Len(cs[2].links[k]) :
                        ~InSeq(cs[2].links[k][n], cs[1].links[k])

\* C6: the returned records are a permutation of the merged set; if some
\* record has an index, records with an index precede those without,
\* indices ascend, and equal-index or both-absent pairs ascend by
\* lower-cased title; otherwise all ascend by lower-cased title.
C6_Ranked ==
    Returned =>
        /\ ~scanned =>
              /\ Len(papers) = Len(deduped)
              /\ \A d \in 1..Len(deduped) : InSeq(deduped[d], papers)
        /\ \A i, j \in 1..Len(papers) :
              i < j =>
                LET a == papers[i]
                    b == papers[j]
                    by_title == TextLess(Lower(a.title), Lower(b.title))
                IN  IF \E n \in 1..Len(papers) : papers[n].index # None
                    THEN \/ a.index # None /\ b.index = None
                         \/ /\ a.index # None /\ b.index # None
                            /\ a.index[1] < b.index[1]
                         \/ /\ a.index # None /\ b.index # None
                            /\ a.index[1] = b.index[1] /\ by_title
                         \/ a.index = None /\ b.index = None /\ by_title
                    ELSE by_title

\* C6 witness: three returned records, with and without an index, two of
\* them with equal or differing indices, whose merged order was changed
\* by the ranking.
C6_Witness ==
    /\ Returned
    /\ Len(papers) = 3
    /\ papers # deduped
    /\ \E n \in 1..3 : papers[n].index = None
    /\ \E n, m \in 1..3 :
          n # m /\ papers[n].index # None /\ papers[m].index # None

\* C7: the fallback block scan runs if and only if the four structural
\* parsers contribute no record; it never runs before they have all run,
\* and without it every returned record is a merged structural record.
C7_FallbackIff ==
    /\ scanned => pc \in {"done", "raised"} /\ ran = Parsers
    /\ pc \in {"done", "raised"} => (scanned <=> candidates = <<>>)
    /\ Returned /\ ~scanned =>
          \A i \in 1..Len(papers) : InSeq(papers[i], deduped)
    /\ Returned /\ scanned =>
          /\ deduped = <<>>
          /\ \A i \in 1..Len(papers) :
                \E b \in 1..Len(doc.blocks) :
                    /\ doc.blocks[b].tag \in {"article", "div", "li"}
                    /\ doc.blocks[b].heading = Some(papers[i].title)

\* C7 witness: all four parsers ran, one of them failed, none contributed
\* a record, and the scan's records were returned.
C7_Witness ==
    /\ Returned
    /\ scanned
    /\ failed # {}
    /\ papers # <<>>

\* what the parsers that did not fail return, in parser order
SurvivingEntries ==
    Concat([p \in 1..Len(Parsers) |->
               IF Parsers[p] \in failed THEN <<>>
               ELSE run_parser(p, doc).entries])

\* C8: when a structural parser raises, extract_papers does not raise, the
\* failing parser contributes nothing, the other parsers' candidates reach
\* the merge as if it had returned an empty list, and the parsers run in
\* the order panels, maincards, ptitles, generic.
C8_ParserFailureContained ==
    failed # {} =>
        /\ pc # "raised"
        /\ pc # "parse" => ran = Parsers /\ candidates = SurvivingEntries

\* The part of C8 about the parser loop alone (lines 355-365).
C8_LoopIsolation ==
    pc # "parse" => ran = Parsers /\ candidates = SurvivingEntries

\* the rule of each kind but the default, over the resolved URL
RuleMatches(kind, anchor, url) ==
    LET label == anchor_text(anchor)
        href(sub) == \E n \in 1..Len(url.segs) :
                        Contains(LowerWord(url.segs[n]), sub)
        cls(sub) == \E c \in anchor.cls : Contains(LowerWord(c), sub)
        lab(sub) == \E n \in 1..Len(label) : Contains(LowerWord(label[n]), sub)
    IN  CASE kind = "pdf" ->
                cls("title-pdf") \/ href("pdf")
                \/ (label # <<>> /\ StartsWith(LowerWord(label[1]), "[pdf"))
          [] kind = "supp" -> cls("supp") \/ href("supp") \/ lab("supp")
          [] kind = "arxiv" -> href("arxiv")
          [] kind = "video" -> href("video") \/ href("youtube")
          [] kind = "slides" -> href("slides") \/ lab("slides")
          [] kind = "venue" -> cls("title-link") \/ href("venue")
          [] kind = "detail" -> href("paper.html")
          [] kind = "link" -> TRUE

FirstKind(anchor, url) ==
    Kinds[CHOOSE n \in 1..Len(Kinds) :
             /\ RuleMatches(Kinds[n], anchor, url)
             /\ \A m \in 1..(n-1) : ~RuleMatches(Kinds[m], anchor, url)]

LkResolved(anchor) ==
    IF lk_base # None THEN urljoin(lk_base[1], anchor_url(anchor)[1])
    ELSE anchor_url(anchor)[1]

LkStored ==
    SelectSeq(lk_tag, LAMBDA a : anchor_url(a) # None /\ ~InClasses("author", a.cls))

LkExpected(k) ==
    LET of == SelectSeq(LkStored, LAMBDA a : FirstKind(a, LkResolved(a)) = k)
    IN  Distinct([n \in 1..Len(of) |-> LkResolved(of[n])])

\* C9: extract_links files each anchor that has a URL and is no author
\* anchor under exactly one kind, the first in the order pdf, supp, arxiv,
\* video, slides, venue, detail whose rule matches, else link; each kind's
\* list holds its anchors' URLs in first-seen order without duplicate.
C9_FirstRuleWins ==
    lk_out # None /\ ~lk_out[1].raised =>
        LET links == lk_out[1].links
        IN  /\ DOMAIN links = { Kinds[n] : n \in { m \in 1..Len(Kinds) :
                                                  LkExpected(Kinds[m]) # <<>> } }
            /\ \A k \in DOMAIN links : links[k] = LkExpected(k)

\* C9 witness: a call whose tag holds an anchor matching the pdf and the
\* arxiv rule, stored under pdf only.
C9_Witness ==
    /\ lk_out # None
    /\ ~lk_out[1].raised
    /\ \E n \in 1..Len(lk_tag) :
          /\ anchor_url(lk_tag[n]) # None
          /\ RuleMatches("pdf", lk_tag[n], LkResolved(lk_tag[n]))
          /\ RuleMatches("arxiv", lk_tag[n], LkResolved(lk_tag[n]))
    /\ DOMAIN lk_out[1].links = {"pdf"}

\* every attribute value an anchor of the document carries
RawUrls ==
    UNION { LET as == all_anchors(doc.blocks[b])
            IN  UNION { { u[1] : u \in { as[n].href, as[n].data, as[n].dhref,
                                         as[n].durl } \ {None} } :
                        n \in 1..Len(as) } :
            b \in 1..Len(doc.blocks) }

StoredUrls ==
    UNION { UNION { { papers[i].links[k][n] : n \in 1..Len(papers[i].links[k]) } :
                    k \in DOMAIN papers[i].links } :
            i \in 1..Len(papers) }

ResolvedAgainstBase(url) ==
    /\ base_url_of(doc) # None
    /\ \E raw \in RawUrls : url = urljoin(base_url_of(doc)[1], raw)

\* C10 as stated: every stored URL is absolute or was resolved against the
\* document's base URL, with or without a base element.
C10_AbsoluteOrResolved ==
    Returned => \A url \in StoredUrls : IsAbsolute(url) \/ ResolvedAgainstBase(url)

\* C10 as amended: with a base URL every stored URL is absolute or was
\* resolved against it; without one every URL is stored as it was found.
C10_ResolvedWhenBase ==
    Returned =>
        IF base_url_of(doc) # None
        THEN \A url \in StoredUrls : IsAbsolute(url) \/ ResolvedAgainstBase(url)
        ELSE \A url \in StoredUrls : url \in RawUrls

\* C10 witness: a document with a base URL whose returned record holds a
\* special-cased panel link that was relative in the markup.
C10_Witness ==
    /\ Returned
    /\ base_url_of(doc) # None
    /\ \E i \in 1..Len(papers) :
          /\ "venue" \in DOMAIN papers[i].links
          /\ \E raw \in RawUrls :
                /\ raw.kind = "ok" /\ ~raw.abs
                /\ InSeq(urljoin(base_url_of(doc)[1], raw), papers[i].links["venue"])

(***************************************************************************)
(* The batch loop                                                          *)
(***************************************************************************)
\* the printed lines about the i-th file
LinesOf(i) == SelectSeq(printed, LAMBDA l : l.file = i)

\* the documents whose processing fails: missing, empty, whitespace only,
\* undecodable, or extract_papers raising
FailingFiles == {FMissing, FEmpty, FBlank, FBinary, FRaises}

\* the non-empty documents in which no paper is found
ZeroPaperFiles == {FNoPapers, FNoLinks}

\* C11: when main has gone through a list of HTML files, every document was
\* processed exactly once; a document whose processing fails (missing,
\* empty, whitespace only, any exception) has a failure line and no output,
\* so never a success with paper_count 0, and the documents after it are
\* still processed; every other document has a success line and an output
\* with the same paper_count; a non-empty document without papers is a
\* success with paper_count 0.
C11_BatchFailureIsolated ==
    main_pc = "done" =>
        \A i \in 1..Len(html_files) :
            LET f == html_files[i]
                ls == LinesOf(i)
            IN  /\ Len(ls) = 1
                /\ f \in FailingFiles =>
                       ls[1].tag = "fail" /\ i \notin DOMAIN out_files
                /\ f \notin FailingFiles =>
                       /\ ls[1].tag = "ok"
                       /\ i \in DOMAIN out_files
                       /\ ls[1].count = Some(out_files[i])
                /\ f \in ZeroPaperFiles =>
                       ls[1].tag = "ok" /\ out_files[i] = 0
                /\ f \in {FOne, FTwo} => out_files[i] > 0

\* a batch whose first document is empty or raises and whose second one is
\* a non-empty document without papers
C11_Witness ==
    /\ main_pc = "done"
    /\ Len(html_files) = 2
    /\ html_files[1] \in {FBlank, FRaises}
    /\ html_files[2] \in ZeroPaperFiles
    /\ printed[1].tag = "fail"
    /\ printed[2] = [tag |-> "ok", file |-> 2, count |-> Some(0)]
    /\ DOMAIN out_files = {2}

(***************************************************************************)
(* The Definition-List parser's author text, the Panel-Card parser's pdf   *)
(* score                                                                   *)
(***************************************************************************)
\* the blocks parse_ptitles makes an entry of, in document order
PtitleBlocks ==
    SelectSeq(doc.blocks, LAMBDA b : HasPtitle(b) /\ b.dt[1].text # <<>>)

\* a dd whose class marks it as an authors block
MarkedAuthors(dd) == \E c \in dd.cls : Contains(c, "authors")

\* the text of the first marked dd, else of the first dd, else nothing
AuthorsTextOf(dds) ==
    IF \E i \in 1..Len(dds) : MarkedAuthors(dds[i])
    THEN dds[CHOOSE i \in 1..Len(dds) :
                 MarkedAuthors(dds[i])
                 /\ \A j \in 1..(i-1) : ~MarkedAuthors(dds[j])].text
    ELSE IF dds # <<>> THEN dds[1].text
    ELSE <<>>

\* C12: right after parse_ptitles returned, the authors of each of its
\* entries are the split text of the first dd sibling whose class marks an
\* authors block, wherever it is among the siblings, and of the first dd
\* sibling only when no sibling carries the marker.
C12_AuthorsFromMarkedDd ==
    (pc = "parse" /\ parser_i = 4 /\ "parse_ptitles" \notin failed) =>
        LET pb == PtitleBlocks
            off == Len(candidates) - Len(pb)
        IN  \A k \in 1..Len(pb) :
                candidates[off + k].authors
                    = split_authors(AuthorsTextOf(pb[k].dds))

\* the cards parse_coolpapers_panels makes an entry of, in document order
PanelBlocks ==
    SelectSeq(doc.blocks,
              LAMBDA b : IsPanel(b)
                         /\ (IF b.title_link # None
                             THEN b.title_link[1].text # <<>>
                             ELSE b.heading # None /\ b.heading[1] # <<>>))

PdfTagOf(block) ==
    LET as == block.anchors
        is_pdf(i) == "title-pdf" \in as[i].cls
    IN  IF \E i \in 1..Len(as) : is_pdf(i)
        THEN Some(as[CHOOSE i \in 1..Len(as) :
                        is_pdf(i) /\ \A j \in 1..(i-1) : ~is_pdf(j)])
        ELSE None

\* the number of the superscript, else the number of the link's own text
SupThenText(block) ==
    LET t == PdfTagOf(block)
        from_sup == IF t[1].sup = None THEN None ELSE to_int(t[1].sup)
    IN  IF t = None THEN None
        ELSE IF from_sup # None THEN from_sup
        ELSE to_int(Some(t[1].text))

\* C13: right after parse_coolpapers_panels returned, the pdf score of each
\* card with a PDF link is the number of the link's superscript and, when
\* there is no superscript or it has no digits, the number of the link's
\* own text; it is null only when neither has a number, and null for a
\* card without a PDF link.
C13_PdfScoreSupThenText ==
    (pc = "parse" /\ parser_i = 2 /\ "parse_coolpapers_panels" \notin failed) =>
        LET pb == PanelBlocks
        IN  /\ Len(candidates) = Len(pb)
            /\ \A k \in 1..Len(pb) :
                   candidates[k].scores[1].pdf = SupThenText(pb[k])

(***************************************************************************)
(* Resumable ingestion                                                     *)
(***************************************************************************)
Eligible(f) == { k \in 1..Len(json_files[f]) : json_files[f][k] }

UpsertedUpTo(f, n) == \A k \in Eligible(f) : k <= n => <<f, k>> \in upserted

\* what holds of the checkpoint file in every state
ResumeSafeState ==
    /\ \A f \in DOMAIN checkpoint.offsets :
          /\ f \in 1..Len(json_files)
          /\ checkpoint.offsets[f] <= Len(json_files[f])
          /\ UpsertedUpTo(f, checkpoint.offsets[f])
    /\ \A f \in checkpoint.done :
          /\ f \in 1..Len(json_files)
          /\ UpsertedUpTo(f, Len(json_files[f]))
    /\ run_pc = "batch" => path_i \notin checkpoint.done

\* what holds of every step
ResumeSafeStep ==
    /\ checkpoint.done \subseteq checkpoint'.done
    /\ \A f \in DOMAIN checkpoint.offsets :
          IF f \in DOMAIN checkpoint'.offsets
          THEN checkpoint'.offsets[f] >= checkpoint.offsets[f]
          ELSE f \in checkpoint'.done
    /\ \A f \in DOMAIN checkpoint'.offsets :
          offset_of(checkpoint', f) # offset_of(checkpoint, f) =>
              /\ run_pc = "batch" /\ f = path_i
              /\ checkpoint'.offsets[f]
                     = Min(batch_start + batch_size, Len(json_files[f]))
    /\ (run_pc # "batch" /\ run_pc' = "batch") => path_i \notin checkpoint.done

\* C14: across runs of main and ingest_file, each possibly aborted at any
\* batch and started again from the checkpoint file, the offset recorded
\* for a file never decreases while it is recorded (the record is dropped
\* only when the file is marked done), never exceeds the file's paper
\* count, and is set to a batch's end only in the step that upserted the
\* batch, so that every eligible paper before it has been upserted; a file
\* is marked done only when every eligible paper of it has been upserted;
\* a done file stays done and ingest_file is never entered for it.
C14_ResumeSafe == []ResumeSafeState /\ [][ResumeSafeStep]_vars

\* a file with two eligible papers is done after an aborted run was resumed
\* in the middle of the file
C14_Witness ==
    /\ run_pc = "end"
    /\ resumed
    /\ \E f \in checkpoint.done :
          /\ Len(json_files[f]) >= 2
          /\ Eligible(f) = 1..Len(json_files[f])
          /\ UpsertedUpTo(f, Len(json_files[f]))
====
